---- MODULE Spec2Model ----
(***************************************************************************)
(* swanplot: the axes object of src/swanplot/axes.py as a state machine.   *)
(*                                                                         *)
(* Values.  A Python str is a sequence of one-character strings ("" is     *)
(* <<>>); a file name is such a sequence whose runs of letters are kept as *)
(* one token ("json").  An Optional value is None == <<>> or Some(v) ==    *)
(* <<v>>.  A float is an exact rational <<numerator, denominator>> in      *)
(* lowest terms with a positive denominator.                               *)
(***************************************************************************)
EXTENDS Integers, Sequences, FiniteSets, TLC

VARIABLES options, type, data, files, last, calls

vars == <<options, type, data, files, last, calls>>

(***************************************************************************)
(* Bounds of the model and the input sets of the calls.                    *)
(***************************************************************************)
MaxCalls == 2
MaxT == 3
MaxTicks == 4
MaxStr == 2
MaxList == 2
MaxName == 3

Bins == {1, 2}
Coords == {0, 1}
TickValues == {0, 5}

RECURSIVE SeqsUpTo(_, _)
SeqsUpTo(S, n) ==
    IF n = 0 THEN {<<>>}
    ELSE LET shorter == SeqsUpTo(S, n - 1)
         IN  shorter \cup {Append(q, v) : q \in shorter, v \in S}

None == <<>>
Some(v) == <<v>>
IsNone(o) == o = <<>>
Value(o) == o[1]

(***************************************************************************)
(* Floats as exact rationals.                                              *)
(***************************************************************************)
Abs(n) == IF n < 0 THEN -n ELSE n

RECURSIVE GCD(_, _)
GCD(a, b) == IF b = 0 THEN a ELSE GCD(b, a % b)

Rat(n, d) ==
    LET g == GCD(Abs(n), d)
    IN  IF n = 0 THEN <<0, 1>> ELSE <<n \div g, d \div g>>

Float(i) == Rat(i, 1)

(***************************************************************************)
(* numpy.linspace(start, stop, num) with endpoint=True, then .tolist():    *)
(* step = (stop - start) / (num - 1), y[i] = start + i * step for          *)
(* i = 0 .. num-1, and y[-1] = stop when num > 1.  num = 1 gives [start].  *)
(***************************************************************************)
LinspaceNoEndpoint(start, stop, num) ==
    [i \in 1..num |-> Rat(start * num + (i - 1) * (stop - start), num)]

Linspace(start, stop, num) ==
    [i \in 1..num |->
        IF num > 1 /\ i = num
        THEN Float(stop)
        ELSE IF num > 1
             THEN Rat(start * (num - 1) + (i - 1) * (stop - start), num - 1)
             ELSE Float(start)]

(***************************************************************************)
(* DataAxes: "t", "x", "y", "c" or 0, 1, 2, 3.                             *)
(***************************************************************************)
StrAxis(c) == [k |-> "str", s |-> <<c>>, i |-> 0]
IntAxis(n) == [k |-> "int", s |-> <<>>, i |-> n]
DataAxes == {StrAxis(c) : c \in {"t", "x", "y", "c"}} \cup {IntAxis(n) : n \in 0..3}

\* match axis: case "t" | 0, case "x" | 1, case "y" | 2, case "c" | 3
Matches(axis, c, n) ==
    \/ axis.k = "str" /\ axis.s = <<c>>
    \/ axis.k = "int" /\ axis.i = n

(***************************************************************************)
(* class Fig: the defaults of its fields.                                  *)
(***************************************************************************)
Fig ==
    [compact |-> FALSE,
     t_unit |-> <<>>, x_unit |-> <<>>, y_unit |-> <<>>, c_unit |-> <<>>,
     t_axis |-> None, x_axis |-> None, y_axis |-> None,
     max_intensity |-> None, min_intensity |-> None,
     x_bins |-> None, y_bins |-> None, max_points |-> None,
     width |-> None, height |-> None,
     margin |-> 40,
     timesteps |-> 1,
     x_label |-> <<>>, y_label |-> <<>>, t_label |-> <<>>, c_label |-> <<>>,
     loop |-> FALSE]

ColorScheme ==
    [colors |-> <<"black", "white">>, positions |-> <<0, 1>>]

NoCall ==
    [op |-> "new", args |-> [none |-> TRUE], outcome |-> "ok", pre |-> Fig, prefiles |-> {}]

Init ==
    /\ options = Fig
    /\ type = None
    /\ data = None
    /\ files = {}
    /\ last = NoCall
    /\ calls = 0

\* The record of a call: what was called, with what, on which options and
\* files, and whether it returned ("ok") or raised (the exception's name).
Called(op, args, outcome) ==
    /\ last' = [op |-> op, args |-> args, outcome |-> outcome, pre |-> options,
                prefiles |-> files]
    /\ calls' = calls + 1

(***************************************************************************)
(* axes.uniform_ticks on an options record: the outcome and the options    *)
(* after it.  Fig has no field c_axis and forbids extra fields, so the     *)
(* assignment of case "c" | 3 raises.                                      *)
(***************************************************************************)
SetTicks(o, input, axis) ==
    IF Matches(axis, "t", 0)
    THEN [outcome |-> "ok", options |-> [o EXCEPT !.t_axis = Some(input)]]
    ELSE IF Matches(axis, "x", 1)
    THEN [outcome |-> "ok", options |-> [o EXCEPT !.x_axis = Some(input)]]
    ELSE IF Matches(axis, "y", 2)
    THEN [outcome |-> "ok", options |-> [o EXCEPT !.y_axis = Some(input)]]
    ELSE IF Matches(axis, "c", 3)
    THEN [outcome |-> "ValueError", options |-> o]
    ELSE [outcome |-> "ok", options |-> o]

UniformTicksOf(o, start, end, axis) ==
    SetTicks(o, Linspace(start, end, o.timesteps), axis)

uniform_ticks(start, end, axis) ==
    LET r == UniformTicksOf(options, start, end, axis)
    IN  /\ options' = r.options
        /\ Called("uniform_ticks", [start |-> start, end |-> end, axis |-> axis], r.outcome)
        /\ UNCHANGED <<type, data, files>>

(***************************************************************************)
(* axes.custom_ticks                                                       *)
(***************************************************************************)
CustomTicksUnchecked(o, input, axis) == SetTicks(o, input, axis)

CustomTicksOf(o, input, axis) ==
    IF Len(input) # o.timesteps
    THEN [outcome |-> "Exception", options |-> o]
    ELSE SetTicks(o, input, axis)

custom_ticks(input, axis) ==
    LET r == CustomTicksOf(options, input, axis)
    IN  /\ options' = r.options
        /\ Called("custom_ticks", [input |-> input, axis |-> axis], r.outcome)
        /\ UNCHANGED <<type, data, files>>

(***************************************************************************)
(* axes.hist.  A datacube is its shape and the extremes of its pixels      *)
(* after astype(uint8); the TIFF made of it and base64 are constructors.   *)
(***************************************************************************)
Tiff(datacube) == [tiff |-> datacube]
B64Encode(bytes) == [b64 |-> bytes]
B64Decode(text) == text.b64

Extremes == {<<0, 255>>}

Datacubes ==
    {[shape |-> <<T, X, Y>>, lo |-> e[1], hi |-> e[2]] :
        T \in 0..MaxT, X \in Bins, Y \in Bins, e \in Extremes}

Extent(size, margin) ==
    IF size >= 256 THEN size + 2 * margin ELSE 256 + 2 * margin

HistOf(o, datacube) ==
    LET T  == datacube.shape[1]
        X  == datacube.shape[2]
        Y  == datacube.shape[3]
        o1 == [o EXCEPT !.max_intensity = Some(datacube.hi),
                        !.min_intensity = Some(datacube.lo),
                        !.compact = TRUE]
        o2 == IF IsNone(o1.t_axis)
              THEN UniformTicksOf(o1, 0, T - 1, StrAxis("t")).options
              ELSE o1
        o3 == [o2 EXCEPT !.timesteps = T]
        o4 == IF IsNone(o3.x_axis)
              THEN UniformTicksOf(o3, 0, X, StrAxis("x")).options
              ELSE o3
        o5 == [o4 EXCEPT !.x_bins = Some(X)]
        o6 == IF IsNone(o5.y_axis)
              THEN UniformTicksOf(o5, 0, Y, StrAxis("y")).options
              ELSE o5
        o7 == [o6 EXCEPT !.y_bins = Some(Y)]
        o8 == IF IsNone(o7.width)
              THEN [o7 EXCEPT !.width = Some(Extent(X, o7.margin))]
              ELSE o7
    IN  IF IsNone(o8.height)
        THEN [o8 EXCEPT !.height = Some(Extent(Y, o8.margin))]
        ELSE o8

hist(datacube) ==
    IF datacube.shape[1] = 0
    THEN \* ims is empty and ims[0] raises before anything is assigned
         /\ Called("hist", [datacube |-> datacube], "IndexError")
         /\ UNCHANGED <<options, type, data, files>>
    ELSE /\ data' = Some(B64Encode(Tiff(datacube)))
         /\ options' = HistOf(options, datacube)
         /\ type' = Some("histogram")
         /\ Called("hist", [datacube |-> datacube], "ok")
         /\ UNCHANGED files

(***************************************************************************)
(* The tick calls: hist, uniform_ticks and custom_ticks in any order.      *)
(***************************************************************************)
TickInputs == {[i \in DOMAIN q |-> Float(q[i])] : q \in SeqsUpTo(TickValues, MaxTicks)}

TicksHist == calls < MaxCalls /\ \E d \in Datacubes : hist(d)

TicksUniform ==
    calls < MaxCalls /\ \E start \in Coords, end \in Coords, axis \in DataAxes :
        uniform_ticks(start, end, axis)

TicksCustom ==
    calls < MaxCalls /\ \E input \in TickInputs, axis \in DataAxes :
        custom_ticks(input, axis)

NextTicks == TicksHist \/ TicksUniform \/ TicksCustom

SpecTicks == Init /\ [][NextTicks]_vars

(***************************************************************************)
(* axes.set_unit                                                           *)
(***************************************************************************)
SetUnitOf(o, unit, axis) ==
    IF Matches(axis, "t", 0) THEN [o EXCEPT !.t_unit = unit]
    ELSE IF Matches(axis, "x", 1) THEN [o EXCEPT !.x_unit = unit]
    ELSE IF Matches(axis, "y", 2) THEN [o EXCEPT !.y_unit = unit]
    ELSE IF Matches(axis, "c", 3) THEN [o EXCEPT !.y_unit = unit]
    ELSE o

set_unit(unit, axis) ==
    /\ options' = SetUnitOf(options, unit, axis)
    /\ Called("set_unit", [unit |-> unit, axis |-> axis], "ok")
    /\ UNCHANGED <<type, data, files>>

Units == {<<>>, <<"m">>, <<"k", "g">>}

UnitSet == calls < MaxCalls /\ \E unit \in Units, axis \in DataAxes : set_unit(unit, axis)

NextUnit == UnitSet

SpecUnit == Init /\ [][NextUnit]_vars

(***************************************************************************)
(* axes.set_label.  StringInput is a str or a list of str, AxesInput one   *)
(* of DataAxes or a list of them.  isinstance(v, Sequence) holds of a str  *)
(* and of a list, not of an int.                                           *)
(***************************************************************************)
PyStr(chars) == [k |-> "str", s |-> chars, i |-> 0]
PyList(items) == [k |-> "list", l |-> items]

IsSequence(v) == v.k \in {"str", "list"}
PyLen(v) == IF v.k = "str" THEN Len(v.s) ELSE Len(v.l)

Min(a, b) == IF a < b THEN a ELSE b

SetLabel(o, a, b) ==
    IF Matches(b, "t", 0) THEN [o EXCEPT !.t_label = a]
    ELSE IF Matches(b, "x", 1) THEN [o EXCEPT !.x_label = a]
    ELSE IF Matches(b, "y", 2) THEN [o EXCEPT !.y_label = a]
    ELSE o

\* for a, b in zip(input, axes), from position n on
RECURSIVE ZipLabels(_, _, _, _)
ZipLabels(o, input, axes, n) ==
    IF n > Min(Len(input), Len(axes)) THEN o
    ELSE ZipLabels(SetLabel(o, input[n], axes[n]), input, axes, n + 1)

SetLabelOf(o, string, axis) ==
    IF IsSequence(string) # IsSequence(axis)
    THEN [outcome |-> "Exception", options |-> o]
    ELSE IF IsSequence(string) /\ IsSequence(axis) /\ PyLen(string) # PyLen(axis)
    THEN [outcome |-> "Exception", options |-> o]
    ELSE LET input == IF string.k = "str" THEN <<string.s>> ELSE string.l
             axes  == IF axis.k \in {"str", "int"} THEN <<axis>> ELSE axis.l
         IN  [outcome |-> "ok", options |-> ZipLabels(o, input, axes, 1)]

set_label(string, axis) ==
    LET r == SetLabelOf(options, string, axis)
    IN  /\ options' = r.options
        /\ Called("set_label", [string |-> string, axis |-> axis], r.outcome)
        /\ UNCHANGED <<type, data, files>>

Chars == {"a"}
Strs == SeqsUpTo(Chars, MaxStr)
StringInputs == {PyStr(s) : s \in Strs} \cup {PyList(l) : l \in SeqsUpTo(Strs, MaxList)}
AxesInputs == DataAxes \cup {PyList(l) : l \in SeqsUpTo(DataAxes, MaxList)}

LabelSet ==
    calls < MaxCalls /\ \E string \in StringInputs, axis \in AxesInputs :
        set_label(string, axis)

NextLabel == LabelSet

SpecLabel == Init /\ [][NextLabel]_vars

(***************************************************************************)
(* axes.savefig                                                            *)
(***************************************************************************)
Max(S) == CHOOSE m \in S : \A n \in S : n <= m
RFind(p, c) == Max({0} \cup {j \in 1..Len(p) : p[j] = c})

\* os.path.splitext(fname)[1]: from the last dot on, when that dot comes
\* after the last separator and after a character that is not a dot.
SplitextExt(p) ==
    LET sepIndex == RFind(p, "/")
        dotIndex == RFind(p, ".")
    IN  IF /\ dotIndex > sepIndex
           /\ \E j \in (sepIndex + 1)..(dotIndex - 1) : p[j] # "."
        THEN SubSeq(p, dotIndex, Len(p))
        ELSE <<>>

\* str(format)
StrOf(format) == IF IsNone(format) THEN <<"None">> ELSE Value(format)

ModelDump == [color_scheme |-> ColorScheme, type |-> type, data |-> data, options |-> options]
JsonDumps(obj, indent) == [json |-> obj, indent |-> indent]
Indentation(style) == IF style = "pretty" THEN 4 ELSE 0

Write(fs, name, content) ==
    {f \in fs : f.name # name} \cup {[name |-> name, content |-> content]}

\* s[1:]
From1(s) == IF s = <<>> THEN <<>> ELSE Tail(s)

InputOf(ext, format) == IF IsNone(format) THEN From1(ext) ELSE Value(format)

savefig(fname, style, format, force) ==
    LET ext   == SplitextExt(fname)
        input == InputOf(ext, format)
        name  == IF ext = <<>> THEN fname \o <<".">> \o StrOf(format) ELSE fname
        args  == [fname |-> fname, style |-> style, format |-> format, force |-> force]
    IN  /\ UNCHANGED <<options, type, data>>
        /\ IF /\ ext # <<>> /\ IsNone(format)
              /\ From1(ext) \notin {<<"json">>, <<"tiff">>} /\ ~force
           THEN Called("savefig", args, "Exception") /\ UNCHANGED files
           ELSE IF ~force /\ ext # <<".">> \o input /\ ext # <<>>
           THEN Called("savefig", args, "Exception") /\ UNCHANGED files
           ELSE IF input = <<"tiff">>
           THEN IF IsNone(data)
                THEN \* open(fname, "wb") made the file, b64decode(None) raises
                     /\ files' = Write(files, name, None)
                     /\ Called("savefig", args, "TypeError")
                ELSE /\ files' = Write(files, name, Some(B64Decode(Value(data))))
                     /\ Called("savefig", args, "ok")
           ELSE IF input = <<"json">>
           THEN /\ files' = Write(files, name, Some(JsonDumps(ModelDump, Indentation(style))))
                /\ Called("savefig", args, "ok")
           ELSE Called("savefig", args, "ok") /\ UNCHANGED files

NameTokens == {"f", ".", "json", "tiff"}
FileNames == SeqsUpTo(NameTokens, MaxName)
Formats == {None, Some(<<"json">>), Some(<<"tiff">>)}
Styles == {"pretty", "compact"}

SaveHist == calls < MaxCalls /\ \E d \in Datacubes : hist(d)

SaveFig ==
    calls < MaxCalls /\ \E fname \in FileNames, style \in Styles, format \in Formats,
                           force \in BOOLEAN :
        savefig(fname, style, format, force)

NextSave == SaveHist \/ SaveFig

SpecSave == Init /\ [][NextSave]_vars

(***************************************************************************)
(* Properties.                                                             *)
(***************************************************************************)
AxisKey(axis) ==
    IF Matches(axis, "t", 0) THEN "t"
    ELSE IF Matches(axis, "x", 1) THEN "x"
    ELSE IF Matches(axis, "y", 2) THEN "y"
    ELSE "c"

Ticks(o) == [t |-> o.t_axis, x |-> o.x_axis, y |-> o.y_axis]
UnitsOf(o) == [t |-> o.t_unit, x |-> o.x_unit, y |-> o.y_unit, c |-> o.c_unit]
LabelsOf(o) == [t |-> o.t_label, x |-> o.x_label, y |-> o.y_label, c |-> o.c_label]

RatLess(p, q) == p[1] * q[2] < q[1] * p[2]
RatLeq(p, q) == p[1] * q[2] <= q[1] * p[2]
RatSub(p, q) == Rat(p[1] * q[2] - q[1] * p[2], p[2] * q[2])

TickAxisCall(op) == last.op = op /\ AxisKey(last.args.axis) \in {"t", "x", "y"}

EvenlySpaced(q) ==
    \A i \in 1..(Len(q) - 2) : RatSub(q[i + 1], q[i]) = RatSub(q[i + 2], q[i + 1])

\* C1: custom_ticks(input, axis) on axis t, x or y accepts input exactly when
\* len(input) equals the recorded timesteps; accepted, the named axis's ticks
\* are input and no other axis's ticks change; otherwise the call raises and
\* the ticks of all axes and timesteps are as before.
C1_CustomTicks ==
    TickAxisCall("custom_ticks") =>
        IF Len(last.args.input) = last.pre.timesteps
        THEN /\ last.outcome = "ok"
             /\ Ticks(options) =
                    [Ticks(last.pre) EXCEPT ![AxisKey(last.args.axis)] = Some(last.args.input)]
             /\ options.timesteps = last.pre.timesteps
        ELSE /\ last.outcome # "ok"
             /\ Ticks(options) = Ticks(last.pre)
             /\ options.timesteps = last.pre.timesteps

\* C1 witness: custom_ticks accepted two or more ticks on an object whose
\* three axes already had ticks.
C1_Witness ==
    /\ TickAxisCall("custom_ticks")
    /\ last.outcome = "ok"
    /\ Len(last.args.input) >= 2
    /\ \A k \in {"t", "x", "y"} : ~IsNone(Ticks(last.pre)[k])
    /\ Ticks(options) # Ticks(last.pre)

\* The ticks uniform_ticks left on the axis it names.
NamedTicks == Ticks(options)[AxisKey(last.args.axis)]

UniformTicksFrame ==
    /\ last.outcome = "ok"
    /\ ~IsNone(NamedTicks)
    /\ Len(Value(NamedTicks)) = last.pre.timesteps
    /\ Ticks(options) = [Ticks(last.pre) EXCEPT ![AxisKey(last.args.axis)] = NamedTicks]
    /\ EvenlySpaced(Value(NamedTicks))
    /\ Value(NamedTicks)[1] = Float(last.args.start)

\* C2 as stated: uniform_ticks(start, end, axis) on axis t, x or y leaves on the
\* named axis exactly timesteps evenly spaced values, the first start and the
\* last end, for every timesteps >= 1, the other axes' ticks unchanged.
C2_UniformTicksAsStated ==
    TickAxisCall("uniform_ticks") =>
        /\ UniformTicksFrame
        /\ Value(NamedTicks)[Len(Value(NamedTicks))] = Float(last.args.end)

\* C2 amended: the same, with the last value equal to end only when
\* timesteps >= 2; with timesteps = 1 the single tick is start.
C2_UniformTicks ==
    TickAxisCall("uniform_ticks") =>
        /\ UniformTicksFrame
        /\ last.pre.timesteps >= 2 =>
               Value(NamedTicks)[Len(Value(NamedTicks))] = Float(last.args.end)
        /\ last.pre.timesteps = 1 => Value(NamedTicks) = <<Float(last.args.start)>>

\* C2 witness: uniform_ticks from start to a different end with three or more
\* timesteps recorded.
C2_Witness ==
    /\ TickAxisCall("uniform_ticks")
    /\ last.outcome = "ok"
    /\ last.pre.timesteps >= 3
    /\ last.args.start # last.args.end

InRange(q, lo, hi) == \A i \in DOMAIN q : RatLeq(Float(lo), q[i]) /\ RatLess(q[i], Float(hi))

\* C3: the first hist on a fresh object, for a T x X x Y datacube, records
\* timesteps = T, x_bins = X, y_bins = Y, and leaves t ticks from 0 to T-1 and
\* x and y ticks that start at 0 and lie in [0, X) and [0, Y).
C3_FirstHist ==
    (last.op = "hist" /\ last.outcome = "ok" /\ calls = 1) =>
        LET T == last.args.datacube.shape[1]
            X == last.args.datacube.shape[2]
            Y == last.args.datacube.shape[3]
        IN  /\ options.timesteps = T
            /\ options.x_bins = Some(X)
            /\ options.y_bins = Some(Y)
            /\ \A k \in {"t", "x", "y"} : ~IsNone(Ticks(options)[k])
            /\ Value(options.t_axis)[1] = Float(0)
            /\ Value(options.t_axis)[Len(Value(options.t_axis))] = Float(T - 1)
            /\ Value(options.x_axis)[1] = Float(0)
            /\ InRange(Value(options.x_axis), 0, X)
            /\ Value(options.y_axis)[1] = Float(0)
            /\ InRange(Value(options.y_axis), 0, Y)

\* C6: whenever t_axis is set, its number of ticks equals timesteps.
C6_TAxisLength ==
    ~IsNone(options.t_axis) => Len(Value(options.t_axis)) = options.timesteps

\* C8: set_unit(unit, axis) sets the unit of the named axis (t/0, x/1, y/2,
\* c/3) and leaves the other three units unchanged.
C8_SetUnit ==
    last.op = "set_unit" =>
        UnitsOf(options) =
            [UnitsOf(last.pre) EXCEPT ![AxisKey(last.args.axis)] = last.args.unit]

\* The label each axis has after the strings at positions n.. of input were
\* given to the axes at the same positions.
RECURSIVE Labelled(_, _, _, _)
Labelled(labels, input, axes, n) ==
    IF n > Len(input) THEN labels
    ELSE Labelled([labels EXCEPT ![AxisKey(axes[n])] = input[n]], input, axes, n + 1)

\* C7: set_label with one string and one axis returns and sets that axis's
\* label (t, x, y or c) to the string, the other labels unchanged; with two
\* lists of equal length it sets each named axis's label to the string at the
\* same position; it raises only for a list with a single value or for lists
\* of different lengths.
C7_SetLabel ==
    last.op = "set_label" =>
        LET string == last.args.string
            axis   == last.args.axis
        IN  IF string.k # "list" /\ axis.k # "list"
            THEN /\ last.outcome = "ok"
                 /\ LabelsOf(options) =
                        [LabelsOf(last.pre) EXCEPT ![AxisKey(axis)] = string.s]
            ELSE IF string.k = "list" /\ axis.k = "list" /\ Len(string.l) = Len(axis.l)
            THEN /\ last.outcome = "ok"
                 /\ LabelsOf(options) = Labelled(LabelsOf(last.pre), string.l, axis.l, 1)
            ELSE /\ last.outcome # "ok"
                 /\ LabelsOf(options) = LabelsOf(last.pre)

FileNamed(name) == {f \in files : f.name = name}

InFormat(content, format, style) ==
    IF format = <<"json">>
    THEN content = Some(JsonDumps(ModelDump, Indentation(style)))
    ELSE ~IsNone(data) /\ content = Some(B64Decode(Value(data)))

\* A tiff cannot be written before hist has made the image.
Writable(format) == format = <<"json">> \/ ~IsNone(data)

\* C4: savefig with a file name without extension writes fname + "." + format
\* in the chosen format, and the chosen format is json when none is given.
C4_BareName ==
    (last.op = "savefig" /\ SplitextExt(last.args.fname) = <<>>) =>
        LET chosen == IF IsNone(last.args.format) THEN <<"json">> ELSE Value(last.args.format)
            name   == last.args.fname \o <<".">> \o chosen
        IN  Writable(chosen) =>
                /\ last.outcome = "ok"
                /\ \E f \in FileNamed(name) : InFormat(f.content, chosen, last.args.style)

\* C5: savefig with a file name that has an extension raises and writes
\* nothing when the extension disagrees with the format (or, no format given,
\* is neither json nor tiff) and force is false; in every other case it
\* writes a file under the given name.
C5_Extension ==
    (last.op = "savefig" /\ SplitextExt(last.args.fname) # <<>>) =>
        LET ext      == SplitextExt(last.args.fname)
            format   == last.args.format
            disagree == IF IsNone(format)
                        THEN From1(ext) \notin {<<"json">>, <<"tiff">>}
                        ELSE ext # <<".">> \o Value(format)
            chosen   == IF ~IsNone(format) THEN Value(format)
                        ELSE IF From1(ext) = <<"tiff">> THEN <<"tiff">>
                        ELSE <<"json">>
        IN  IF disagree /\ ~last.args.force
            THEN last.outcome # "ok" /\ files = last.prefiles
            ELSE Writable(chosen) =>
                     /\ last.outcome = "ok"
                     /\ \E f \in FileNamed(last.args.fname) :
                            InFormat(f.content, chosen, last.args.style)

====
